---- MODULE Spec2Model ----
(***************************************************************************)
(* Message routing and session-lifecycle engine of the DIM station:        *)
(* Dispatcher.deliver (station/dispatcher.py), the handshake and presence  *)
(* handlers of MessageProcessor (station/processor.py), the guest worklist *)
(* of Receptionist (station/receptionist.py), the offline message files of *)
(* Database (station/database.py) and the mute command processor           *)
(* (libs/common/cpu/mute.py).                                              *)
(***************************************************************************)
EXTENDS Integers, Sequences, FiniteSets, TLC

VARIABLES
    session,     \* connection -> Session record (NoSession when none)
    registry,    \* SessionServer: identifier -> set of connections
    guests,      \* Receptionist.guests (a Python list)
    files,       \* Database: receiver -> sequence of .msg files (each a sequence of lines)
    inbox,       \* connection -> messages its push_message accepted, in order
    nextSig,     \* signature of the next envelope handed to deliver
    blockList,   \* Database block-list: set of <<sender, receiver>>
    muteList,    \* Database mute commands: user -> stored mute list
    reception,   \* Receptionist.run: where the thread is and its local variables
    running,     \* station.running, the flag the Receptionist loop tests
    tokens,      \* Database device tokens: identifier -> token (None when none saved)
    db,          \* Database calls in progress, and what finished loads returned
    worker,      \* connection -> where its worker is inside a foreground report
    lastOp       \* what the most recent handler call did and returned

vars == <<session, registry, guests, files, inbox, nextSig, blockList, muteList,
          reception, running, tokens, db, worker, lastOp>>

----------------------------------------------------------------------------
(* Bounds of the model *)

\* number of envelopes handed to Dispatcher.deliver in one behaviour
MaxMsgs == 1

\* length at which the guest worklist stops accepting further guests
MaxGuests == 2

\* number of envelopes handed to Dispatcher.deliver while the Receptionist runs
MaxQueued == 2

\* number of errors raised inside Receptionist.run in one behaviour
MaxErrors == 1

----------------------------------------------------------------------------
(* Identifiers, connections, keys, message types *)

None == "None"

Users == {"U1", "U2"}

Groups == {"G1"}

\* the reserved broadcast identifier everyone@everywhere
EVERYONE == "everyone"

\* every identifier an envelope may name as its receiver
Receivers == Users \cup Groups \cup {EVERYONE}

Conn == {"c1", "c2"}

Keys == {"k1", "k2"}

\* the session key the server issues to the session of each connection
issued(c) == IF c = "c1" THEN "k1" ELSE "k2"

\* dimp.ContentType values tested by Dispatcher.__push_msg
ContentType == [Text |-> 1, File |-> 16, Image |-> 18, Audio |-> 20, Video |-> 22,
                Command |-> 136]

MsgTypes == {0, ContentType.Text, ContentType.File, ContentType.Image,
             ContentType.Audio, ContentType.Video, ContentType.Command}

\* the envelopes handed to deliver: a text message from U1 to each receiver,
\* without a group and in each group, and a message of each type from U1 to U2
Envelopes ==
    [sender : {"U1"}, receiver : Receivers \ {"U1"},
     group : {None} \cup Groups \cup {EVERYONE}, type : {ContentType.Text}]
    \cup [sender : {"U1"}, receiver : {"U2"}, group : {None}, type : MsgTypes]

NoSession == [identifier |-> None, session_key |-> None, valid |-> FALSE, active |-> FALSE]

NoOp == [op |-> "none"]

\* what a handler that returns None answers: nothing is sent back
NoResponse == [command |-> None]

\* the device tokens a client submits
DeviceTokens == {"t1"}

\* no Database call is in progress and no load has returned
NoCalls ==
    [writer |-> [pc |-> "idle", sig |-> 0, target |-> 0],
     loader |-> [pc |-> "idle", data |-> <<>>],
     returned |-> <<>>]

\* no mute command stored for a user
NoMute == [stored |-> FALSE, list |-> {}]

\* the signatures of the envelopes of one behaviour
Sigs == 1..(MaxMsgs + MaxQueued)

\* Receptionist.run between two passes: asleep, its locals empty
Asleep == [pc |-> "sleep", guests |-> <<>>, identifier |-> None, sessions |-> {},
           messages |-> <<>>, count |-> 0, errors |-> 0]

----------------------------------------------------------------------------
(* Session and SessionServer *)

\* Session(identifier, request_handler): a fresh session is not valid, is
\* active, and carries the key the server issued for it
NewSession(identifier, key) ==
    [identifier |-> identifier, session_key |-> key, valid |-> FALSE, active |-> TRUE]

\* SessionServer.search(identifier)
search(reg, identifier) ==
    IF identifier \in DOMAIN reg THEN reg[identifier] ELSE {}

\* SessionServer registration of connection c under identifier
register(reg, identifier, c) ==
    [reg EXCEPT ![identifier] = @ \cup {c}]

\* a removal that forgets nothing
remove_none(reg, c) == reg

\* a removal that empties the registry when the session is not in it
remove_or_clear(reg, c) ==
    IF \E u \in DOMAIN reg : c \in reg[u]
    THEN [u \in DOMAIN reg |-> reg[u] \ {c}]
    ELSE [u \in DOMAIN reg |-> {}]

\* SessionServer removal of connection c from whatever slot holds it
remove(reg, c) ==
    [u \in DOMAIN reg |-> reg[u] \ {c}]

----------------------------------------------------------------------------
(* Receptionist worklist *)

\* Receptionist.add_guest
add_guest(gs, identifier) == Append(gs, identifier)

----------------------------------------------------------------------------
(* Dispatcher *)

\* mkm.is_broadcast(identifier)
is_broadcast(identifier) == identifier = EVERYONE

\* Dispatcher.__transmit: neighbour stations are a stub; deliver calls it after
\* the store and discards what it returns
transmit(msg) == FALSE

\* Dispatcher.__broadcast: a stub
broadcast(msg) == FALSE

\* Dispatcher.__blocked: a stub that consults no block-list
blocked(sender, group) == FALSE

\* Dispatcher.__muted: a stub that consults no mute-list
muted(sender, group) == FALSE

\* the broadcast test at the head of deliver: the receiver when the envelope
\* has no group, the group otherwise
broadcast_receiver_only(msg) == is_broadcast(msg.receiver)

broadcast_message(msg) ==
    IF msg.group = None THEN is_broadcast(msg.receiver) ELSE is_broadcast(msg.group)

\* a session deliver pushes to: neither "valid is False" nor "active is False"
eligible_valid_only(sess) == ~(sess.valid = FALSE)

eligible(sess) == ~(sess.valid = FALSE \/ sess.active = FALSE)

\* "if success > 0": the live push counts as delivered
pushed_twice(success) == success > 1

pushed_any(success) == success >= 0

pushed(success) == success > 0

\* the line Database.store_message writes for a message: json_str(msg), kept
\* here as the signature that identifies the message
line(msg) == msg.sig

\* Database.store_message: append the line to the receiver's file named by the
\* current second (same_second: a file of that name is the newest one)
store_message_twice(fs, msg, same_second) ==
    [fs EXCEPT ![msg.receiver] = @ \o <<(<<line(msg)>>), (<<line(msg)>>)>>]

store_message(fs, msg, same_second) ==
    LET fl == fs[msg.receiver]
        n == Len(fl)
    IN  IF same_second /\ n > 0
        THEN [fs EXCEPT ![msg.receiver] = [fl EXCEPT ![n] = Append(@, line(msg))]]
        ELSE [fs EXCEPT ![msg.receiver] = Append(fl, <<line(msg)>>)]

\* the guest worklist after the offline fallback: Dispatcher holds no
\* Receptionist and registers nobody
offline_guests_registered(gs, receiver) == add_guest(gs, receiver)

offline_guests(gs, receiver) == gs

\* the words __push_msg picks for a message type (None: the type is ignored)
something_any(msg_type) ==
    CASE msg_type = 0 -> "a message"
      [] msg_type = ContentType.Text -> "a text message"
      [] msg_type = ContentType.File -> "a file"
      [] msg_type = ContentType.Image -> "an image"
      [] msg_type = ContentType.Audio -> "a voice message"
      [] msg_type = ContentType.Video -> "a video"
      [] OTHER -> "a message"

something(msg_type) ==
    CASE msg_type = 0 -> "a message"
      [] msg_type = ContentType.Text -> "a text message"
      [] msg_type = ContentType.File -> "a file"
      [] msg_type = ContentType.Image -> "an image"
      [] msg_type = ContentType.Audio -> "a voice message"
      [] msg_type = ContentType.Video -> "a video"
      [] OTHER -> None

\* identifier.type.is_user(), asserted by Facebook.nickname
is_user(identifier) == identifier \in Users

\* Facebook.nickname: the display name of a user
nickname(identifier) == <<"name", identifier>>

\* Dispatcher.__push_msg; apns_ok is what apns.push returns.  The result says
\* what was returned, whether an assertion was raised, and the apns.push calls
\* made (each with what it returned)
push_msg(sender, receiver, group, msg_type, apns_ok) ==
    IF something(msg_type) = None
    THEN [ret |-> FALSE, raised |-> FALSE, apns |-> <<>>]
    ELSE IF ~is_user(sender) \/ ~is_user(receiver)
    THEN [ret |-> FALSE, raised |-> TRUE, apns |-> <<>>]
    ELSE [ret |-> apns_ok, raised |-> FALSE,
          apns |-> <<[identifier |-> receiver,
                      to_name |-> nickname(receiver),
                      from_name |-> nickname(sender),
                      what |-> something(msg_type),
                      in_group |-> group,
                      returned |-> apns_ok]>>]

\* the inboxes after push_message of msg was accepted on the connections cs
push_message(ib, cs, msg) ==
    [c \in DOMAIN ib |-> IF c \in cs THEN Append(ib[c], line(msg)) ELSE ib[c]]

\* Dispatcher.deliver.  accepts: the connections whose push_message returns
\* True; same_second, apns_ok: what the clock and apns.push answer.  The result
\* is what deliver returned and did.
deliver(msg, reg, sess, fs, ib, gs, accepts, same_second, apns_ok) ==
    LET quiet == [result |-> FALSE, raised |-> FALSE, block_checked |-> FALSE,
                  searched |-> FALSE, attempted |-> {}, apns |-> <<>>,
                  files |-> fs, inbox |-> ib, guests |-> gs]
        sessions == search(reg, msg.receiver)
        attempted == {c \in sessions : eligible(sess[c])}
        success == Cardinality(attempted \cap accepts)
        tried == [quiet EXCEPT !.block_checked = TRUE, !.searched = TRUE,
                               !.attempted = attempted,
                               !.inbox = push_message(ib, attempted \cap accepts, msg)]
        stored == [tried EXCEPT !.files = store_message(fs, msg, same_second),
                                !.guests = offline_guests(gs, msg.receiver)]
        push == push_msg(msg.sender, msg.receiver, msg.group, msg.type, apns_ok)
    IN  IF broadcast_message(msg)
        THEN [quiet EXCEPT !.result = broadcast(msg)]
        ELSE IF blocked(msg.sender, msg.group)
        THEN [quiet EXCEPT !.block_checked = TRUE]
        ELSE IF sessions # {} /\ pushed(success)
        THEN [tried EXCEPT !.result = TRUE]
        ELSE IF muted(msg.sender, msg.group)
        THEN [stored EXCEPT !.result = TRUE]
        ELSE [stored EXCEPT !.result = push.ret, !.raised = push.raised,
                            !.apns = push.apns]

----------------------------------------------------------------------------
(* MessageProcessor *)

\* "session_key == session.session_key" in process_handshake
key_matches_or_none(session_key, sess) ==
    session_key = sess.session_key \/ session_key = None

key_matches(session_key, sess) == session_key = sess.session_key

\* the session after an accepted handshake
accept_session_valid_only(sess) == [sess EXCEPT !.valid = TRUE]

accept_session(sess) == [sess EXCEPT !.valid = TRUE, !.active = TRUE]

\* HandshakeCommand.again(session=session.session_key)
again_without_key(sess) ==
    [command |-> "handshake", message |-> "DIM?", session |-> None]

again(sess) ==
    [command |-> "handshake", message |-> "DIM?", session |-> sess.session_key]

\* MessageProcessor.process_handshake on session sess.  The result is the
\* session and the worklist afterwards and the response
process_handshake(sess, gs, sender, session_key) ==
    IF key_matches(session_key, sess)
    THEN [session |-> accept_session(sess), guests |-> add_guest(gs, sender),
          response |-> [command |-> "handshake", message |-> "DIM!", session |-> None]]
    ELSE [session |-> sess, guests |-> gs, response |-> again(sess)]

\* session.active after a report of state
reported_active_foreground(state) == state = "foreground"

reported_active(state) == state # "background"

\* the report branch of MessageProcessor.process_broadcast_command
process_report(sess, gs, state) ==
    IF state = None
    THEN [session |-> sess, guests |-> gs, response |-> NoResponse]
    ELSE [session |-> [sess EXCEPT !.active = reported_active(state)],
          guests |-> IF state = "foreground" THEN add_guest(gs, sess.identifier) ELSE gs,
          response |-> [command |-> "receipt", message |-> "Client state received"]]

\* the broadcast branch of MessageProcessor.process_command for a report
process_command_report(sess, gs, sender, state) ==
    IF ~sess.valid
    THEN process_handshake(sess, gs, sender, None)
    ELSE process_report(sess, gs, state)

States == {None, "background", "foreground", "unknown"}

----------------------------------------------------------------------------
(* Initial state *)

TypeOK ==
    /\ session \in [Conn -> [identifier : Users \cup {None}, session_key : Keys \cup {None},
                             valid : BOOLEAN, active : BOOLEAN]]
    /\ registry \in [Users -> SUBSET Conn]
    /\ guests \in Seq(Users)
    /\ files \in [Receivers -> Seq(Seq(Sigs))]
    /\ inbox \in [Conn -> Seq(Sigs)]
    /\ nextSig \in Sigs \cup {MaxMsgs + MaxQueued + 1}
    /\ blockList \subseteq (Users \X Users)
    /\ muteList \in [Users -> [stored : BOOLEAN, list : SUBSET Users]]
    /\ running \in BOOLEAN
    /\ tokens \in [Users -> DeviceTokens \cup {None}]
    /\ db.writer.pc \in {"idle", "opened"}
    /\ db.loader.pc \in {"idle", "read"}
    /\ db.loader.data \in Seq(Sigs)
    /\ db.returned \in Seq(Seq(Sigs))
    /\ worker \in [Conn -> {"idle", "activate"}]
    /\ reception.pc \in {"sleep", "guest", "push", "remove", "exit", "raised"}
    /\ reception.guests \in Seq(Users)
    /\ reception.identifier \in Users \cup {None}
    /\ reception.sessions \subseteq Conn
    /\ reception.messages \in Seq(Sigs)
    /\ reception.count \in 0..Len(reception.messages)
    /\ reception.errors \in 0..MaxErrors

Init ==
    /\ session = [c \in Conn |-> NoSession]
    /\ registry = [u \in Users |-> {}]
    /\ guests = <<>>
    /\ files = [r \in Receivers |-> <<>>]
    /\ inbox = [c \in Conn |-> <<>>]
    /\ nextSig = 1
    /\ blockList = {}
    /\ muteList = [u \in Users |-> NoMute]
    /\ reception = Asleep
    /\ running = TRUE
    /\ tokens = [u \in Users |-> None]
    /\ db = NoCalls
    /\ worker = [c \in Conn |-> "idle"]
    /\ lastOp = NoOp

----------------------------------------------------------------------------
(* Actions *)

\* request_handler.current_session(identifier): the connection's session,
\* created and registered under the identifier when the connection has none
current_session(c, identifier) ==
    IF session[c] = NoSession THEN NewSession(identifier, issued(c)) ELSE session[c]

current_registry(c, identifier) ==
    IF session[c] = NoSession THEN register(registry, identifier, c) ELSE registry

\* a handshake command from sender on connection c, echoing session_key
Handshake(c, sender, session_key) ==
    /\ session[c] = NoSession \/ session[c].identifier = sender
    /\ \E out \in {process_handshake(current_session(c, sender), guests, sender,
                                      session_key)} :
           /\ Len(out.guests) <= MaxGuests
           /\ session' = [session EXCEPT ![c] = out.session]
           /\ registry' = current_registry(c, sender)
           /\ guests' = out.guests
           /\ lastOp' = [op |-> "handshake", response |-> out.response]
    /\ UNCHANGED <<db, worker, files, inbox, nextSig, blockList, muteList, reception, running, tokens>>

\* a broadcast command titled report from sender on connection c
Report(c, sender, state) ==
    /\ session[c] = NoSession \/ session[c].identifier = sender
    /\ \E out \in {process_command_report(current_session(c, sender), guests,
                                           sender, state)} :
           /\ Len(out.guests) <= MaxGuests
           /\ session' = [session EXCEPT ![c] = out.session]
           /\ registry' = current_registry(c, sender)
           /\ guests' = out.guests
           /\ lastOp' = [op |-> "report", response |-> out.response,
                         registered |-> out.guests # guests]
    /\ UNCHANGED <<db, worker, files, inbox, nextSig, blockList, muteList, reception, running, tokens>>

\* the connection closes: its session leaves the registry and is destroyed
Disconnect(c) ==
    /\ session[c] # NoSession
    /\ session' = [session EXCEPT ![c] = NoSession]
    /\ registry' = remove(registry, c)
    /\ lastOp' = [op |-> "disconnect"]
    /\ UNCHANGED <<db, worker, guests, files, inbox, nextSig, blockList, muteList, reception, running, tokens>>

\* MessageProcessor.deliver_message: one call of Dispatcher.deliver
deliver_message(env, accepts, same_second, apns_ok) ==
    /\ \E msg \in {[sig |-> nextSig, sender |-> env.sender, receiver |-> env.receiver,
                     group |-> env.group, type |-> env.type]} :
       \E out \in {deliver(msg, registry, session, files, inbox, guests,
                            accepts, same_second, apns_ok)} :
           /\ files' = out.files
           /\ inbox' = out.inbox
           /\ guests' = out.guests
           /\ lastOp' = [op |-> "deliver", msg |-> msg, result |-> out.result,
                         raised |-> out.raised, block_checked |-> out.block_checked,
                         searched |-> out.searched, attempted |-> out.attempted,
                         apns |-> out.apns]
    /\ nextSig' = nextSig + 1
    /\ UNCHANGED <<db, worker, session, registry, blockList, muteList, reception, running, tokens>>

\* one call of Dispatcher.deliver
Deliver(env, accepts, same_second, apns_ok) ==
    /\ nextSig <= MaxMsgs
    /\ deliver_message(env, accepts, same_second, apns_ok)

\* MuteCommandProcessor.process: a mute command with a list is saved (saved:
\* what Database.save_mute_command answers), one without a list is a query
MuteCommand(sender, has_list, list, saved) ==
    /\ muteList' = IF has_list /\ saved THEN [muteList EXCEPT ![sender] = [stored |-> TRUE, list |-> list]]
                   ELSE muteList
    /\ lastOp' = [op |-> "mute", sender |-> sender,
                  response |-> IF has_list
                               THEN IF saved THEN [command |-> "receipt"]
                                    ELSE [command |-> "text"]
                               ELSE [command |-> "mute"]]
    /\ UNCHANGED <<db, worker, session, registry, guests, files, inbox, nextSig, blockList, reception, running, tokens>>

Next ==
    \/ \E c \in Conn, sender \in Users, k \in Keys \cup {None} :
          Handshake(c, sender, k)
    \/ \E c \in Conn, sender \in Users, state \in States :
          Report(c, sender, state)
    \/ \E c \in Conn : Disconnect(c)
    \/ \E env \in Envelopes, apns_ok \in BOOLEAN :
          \E accepts \in SUBSET search(registry, env.receiver),
             same_second \in {b \in BOOLEAN : b => files[env.receiver] # <<>>} :
             Deliver(env, accepts, same_second, apns_ok)

Spec == Init /\ [][Next]_vars

\* the station with stored block-lists and mute commands
InitAcl ==
    /\ session = [c \in Conn |-> NoSession]
    /\ registry = [u \in Users |-> {}]
    /\ guests = <<>>
    /\ files = [r \in Receivers |-> <<>>]
    /\ inbox = [c \in Conn |-> <<>>]
    /\ nextSig = 1
    /\ blockList \in SUBSET {<<"U1", "U2">>}
    /\ muteList = [u \in Users |-> NoMute]
    /\ reception = Asleep
    /\ running = TRUE
    /\ tokens = [u \in Users |-> None]
    /\ db = NoCalls
    /\ worker = [c \in Conn |-> "idle"]
    /\ lastOp = NoOp

NextAcl ==
    \/ Next
    \/ \E sender \in Users, has_list \in BOOLEAN, saved \in BOOLEAN :
          \E list \in SUBSET (Users \ {sender}) :
             MuteCommand(sender, has_list, list, saved)

SpecAcl == InitAcl /\ [][NextAcl]_vars

----------------------------------------------------------------------------
(* Storage of message batches, as the Receptionist uses it *)

\* no batch: what load_message_batch returns for a receiver without messages
NoBatch == [present |-> FALSE, messages |-> <<>>]

\* database.load_message_batch(identifier): the oldest file of the receiver as
\* one batch, left in place; a receiver without files has no batch (absent)
\* or a batch without messages
load_message_batch(fs, identifier, absent) ==
    IF fs[identifier] = <<>>
    THEN IF absent THEN NoBatch ELSE [present |-> TRUE, messages |-> <<>>]
    ELSE [present |-> TRUE, messages |-> fs[identifier][1]]

\* database.remove_message_batch(batch, removed_count): the first
\* removed_count messages of the batch leave the receiver's oldest file, and
\* the file goes when nothing is left in it
remove_message_batch(fs, identifier, removed_count) ==
    IF fs[identifier] = <<>> THEN fs
    ELSE LET file == fs[identifier][1]
             rest == SubSeq(file, removed_count + 1, Len(file))
         IN  [fs EXCEPT ![identifier] = IF rest = <<>> THEN Tail(@)
                                         ELSE <<rest>> \o Tail(@)]

----------------------------------------------------------------------------
(* Receptionist.run *)

\* the exceptions a collaborator raises inside the loop
Errors == {"IOError", "JSONDecodeError", "TypeError", "ValueError", "KeyError"}

\* the except clauses of the loop
caught_none(error) == FALSE

caught(error) == error \in {"IOError", "JSONDecodeError", "TypeError", "ValueError"}

\* batch is None
batch_missing_or_empty(batch) == ~batch.present \/ Len(batch.messages) = 0

batch_missing(batch) == ~batch.present

\* identifier is in the list gs
has_guest(gs, identifier) == \E i \in 1..Len(gs) : gs[i] = identifier

\* self.guests.remove(identifier): the first occurrence leaves the list
remove_guest_keep(gs, identifier) == gs

remove_guest_all(gs, identifier) == SelectSeq(gs, LAMBDA g : g # identifier)

remove_guest(gs, identifier) ==
    IF ~has_guest(gs, identifier) THEN gs
    ELSE LET i == CHOOSE k \in 1..Len(gs) :
                      gs[k] = identifier /\ \A j \in 1..(k - 1) : gs[j] # identifier
         IN  SubSeq(gs, 1, i - 1) \o SubSeq(gs, i + 1, Len(gs))

\* the session test of the drain loop
receivable(sess) == ~(sess.valid = FALSE \/ sess.active = FALSE)

\* the test that counts a message as pushed
counted_always(success) == TRUE

counted(success) == success > 0

\* the number of messages remove_message_batch is told to remove
removed_count_all(count, total_count) == total_count

removed_count(count, total_count) == count

\* the guest leaves the worklist after a drain
drained_untrack_never(count, total_count) == FALSE

drained_untrack_always(count, total_count) == count <= total_count

drained_untrack(count, total_count) == count < total_count

\* the loop after an exception: the finally clause sleeps, a caught error
\* leaves the loop running and any other leaves run() with the exception
abort(rec, error) ==
    [Asleep EXCEPT !.pc = IF caught(error) THEN "sleep" ELSE "raised",
                   !.errors = rec.errors + 1]

\* the step of the loop that follows the guest at the head of the snapshot
next_guest(rec) ==
    [Asleep EXCEPT !.pc = "guest", !.guests = Tail(rec.guests), !.errors = rec.errors]

\* steps 1 and 2 of the loop body for the guest at the head of the snapshot:
\* search its sessions and load its batch; error is what load_message_batch
\* raised (None when it returned)
visit(rec, gs, reg, fs, absent, error) ==
    LET identifier == Head(rec.guests)
        sessions == search(reg, identifier)
        batch == load_message_batch(fs, identifier, absent)
        quiet == [reception |-> next_guest(rec), guests |-> gs,
                  log |-> [identifier |-> identifier, sessions |-> sessions,
                           loaded |-> FALSE, batch |-> NoBatch, untracked |-> FALSE,
                           badge_cleared |-> FALSE, raised |-> None]]
    IN  IF sessions = {}
        THEN IF has_guest(gs, identifier)
             THEN [quiet EXCEPT !.guests = remove_guest(gs, identifier),
                                !.log.untracked = TRUE]
             ELSE [quiet EXCEPT !.reception = abort(rec, "ValueError"),
                                !.log.raised = "ValueError"]
        ELSE IF error # None
        THEN [quiet EXCEPT !.reception = abort(rec, error), !.log.loaded = TRUE,
                           !.log.raised = error]
        ELSE IF batch_missing(batch)
        THEN IF has_guest(gs, identifier)
             THEN [quiet EXCEPT !.guests = remove_guest(gs, identifier),
                                !.log.loaded = TRUE, !.log.batch = batch,
                                !.log.untracked = TRUE, !.log.badge_cleared = TRUE]
             ELSE [quiet EXCEPT !.reception = abort(rec, "ValueError"),
                                !.log.loaded = TRUE, !.log.batch = batch,
                                !.log.raised = "ValueError"]
        ELSE IF Len(batch.messages) = 0
        THEN [quiet EXCEPT !.log.loaded = TRUE, !.log.batch = batch]
        ELSE [quiet EXCEPT !.reception = [rec EXCEPT !.pc = "push",
                                                     !.identifier = identifier,
                                                     !.sessions = sessions,
                                                     !.messages = batch.messages,
                                                     !.count = 0],
                           !.log.loaded = TRUE, !.log.batch = batch]

\* step 3 of the loop body for the next message of the batch: push it to
\* every session of the guest that is valid and active; accepts are the
\* sessions whose push_message returns true, error is what a push raised
push(rec, sess, ib, accepts, error) ==
    LET msg == [sig |-> rec.messages[rec.count + 1]]
        attempted == {c \in rec.sessions : /\ sess[c].identifier = rec.identifier
                                           /\ receivable(sess[c])}
        accepted == attempted \cap accepts
        success == Cardinality(accepted)
        total_count == Len(rec.messages)
        out == [reception |-> rec, inbox |-> push_message(ib, accepted, msg),
                log |-> [identifier |-> rec.identifier, message |-> line(msg),
                         attempted |-> attempted, accepted |-> accepted,
                         raised |-> error]]
    IN  IF error # None
        THEN [out EXCEPT !.reception = abort(rec, error)]
        ELSE IF counted(success)
        THEN [out EXCEPT !.reception.count = rec.count + 1,
                         !.reception.pc = IF rec.count + 1 = total_count
                                          THEN "remove" ELSE "push"]
        ELSE [out EXCEPT !.reception.pc = "remove"]

\* step 4 of the loop body: remove the pushed messages from storage and drop
\* the guest when some were left; error is what remove_message_batch raised
remove_batch(rec, gs, fs, error) ==
    LET total_count == Len(rec.messages)
        removed == removed_count(rec.count, total_count)
        out == [reception |-> next_guest(rec), guests |-> gs, files |-> fs,
                log |-> [identifier |-> rec.identifier, messages |-> rec.messages,
                         count |-> rec.count, removed_count |-> 0,
                         untracked |-> FALSE, raised |-> error]]
        gone == [out EXCEPT !.files = remove_message_batch(fs, rec.identifier, removed),
                            !.log.removed_count = removed]
    IN  IF error # None
        THEN [out EXCEPT !.reception = abort(rec, error)]
        ELSE IF ~drained_untrack(rec.count, total_count)
        THEN gone
        ELSE IF has_guest(gs, rec.identifier)
        THEN [gone EXCEPT !.guests = remove_guest(gs, rec.identifier),
                          !.log.untracked = TRUE]
        ELSE [gone EXCEPT !.reception = abort(rec, "ValueError"),
                          !.log.raised = "ValueError"]

\* the errors a step may still raise
Raisable == IF reception.errors < MaxErrors THEN {None, "IOError", "KeyError"} ELSE {None}

\* "while station.running" found the flag set: the loop copies the worklist
Tick ==
    /\ reception.pc = "sleep"
    /\ running
    /\ reception' = [reception EXCEPT !.pc = "guest", !.guests = guests]
    /\ lastOp' = [op |-> "tick"]
    /\ UNCHANGED <<db, worker, session, registry, guests, files, inbox, nextSig, blockList, muteList, running, tokens>>

\* the loop has gone through the snapshot and sleeps
EndPass ==
    /\ reception.pc = "guest"
    /\ reception.guests = <<>>
    /\ reception' = [reception EXCEPT !.pc = "sleep"]
    /\ lastOp' = [op |-> "sleep"]
    /\ UNCHANGED <<db, worker, session, registry, guests, files, inbox, nextSig, blockList, muteList, running, tokens>>

\* "while station.running" found the flag cleared: run() returns
Exit ==
    /\ reception.pc = "sleep"
    /\ ~running
    /\ reception' = [reception EXCEPT !.pc = "exit"]
    /\ lastOp' = [op |-> "exit"]
    /\ UNCHANGED <<db, worker, session, registry, guests, files, inbox, nextSig, blockList, muteList,
                   running, tokens>>

\* the owning process clears station.running
Stop ==
    /\ running
    /\ running' = FALSE
    /\ lastOp' = [op |-> "stop"]
    /\ UNCHANGED <<db, worker, session, registry, guests, files, inbox, nextSig, blockList, muteList,
                   reception, tokens>>

\* the loop takes the next guest of the snapshot
Visit(absent, error) ==
    /\ reception.pc = "guest"
    /\ reception.guests # <<>>
    /\ \E out \in {visit(reception, guests, registry, files, absent, error)} :
           /\ reception' = out.reception
           /\ guests' = out.guests
           /\ lastOp' = [op |-> "visit", log |-> out.log]
    /\ UNCHANGED <<db, worker, session, registry, files, inbox, nextSig, blockList, muteList, running, tokens>>

\* the loop pushes the next message of the batch; a push that raises is one
\* that has not returned true
Push(accepts, error) ==
    /\ reception.pc = "push"
    /\ \E out \in {push(reception, session, inbox, accepts, error)} :
           /\ error # None => out.log.attempted \ out.log.accepted # {}
           /\ reception' = out.reception
           /\ inbox' = out.inbox
           /\ lastOp' = [op |-> "push", log |-> out.log]
    /\ UNCHANGED <<db, worker, session, registry, guests, files, nextSig, blockList, muteList, running, tokens>>

\* the loop removes what it pushed
Remove(error) ==
    /\ reception.pc = "remove"
    /\ \E out \in {remove_batch(reception, guests, files, error)} :
           /\ reception' = out.reception
           /\ guests' = out.guests
           /\ files' = out.files
           /\ lastOp' = [op |-> "remove", log |-> out.log]
    /\ UNCHANGED <<db, worker, session, registry, inbox, nextSig, blockList, muteList, running, tokens>>

\* one call of Dispatcher.deliver while the Receptionist runs
DeliverQueued(env, accepts, same_second, apns_ok) ==
    /\ nextSig <= MaxQueued
    /\ deliver_message(env, accepts, same_second, apns_ok)

\* the envelopes delivered while the Receptionist runs: text from U1 to U2
QueuedEnvelopes ==
    [sender : {"U1"}, receiver : {"U2"}, group : {None}, type : {ContentType.Text}]

\* the users that connect while the Receptionist runs
Guests == {"U2"}

\* the station with its Receptionist thread
NextDrain ==
    \/ \E c \in Conn, sender \in Guests, k \in Keys \cup {None} :
          Handshake(c, sender, k)
    \/ \E c \in Conn, sender \in Guests, state \in States :
          Report(c, sender, state)
    \/ \E c \in Conn : Disconnect(c)
    \/ \E env \in QueuedEnvelopes, apns_ok \in {TRUE} :
          \E accepts \in SUBSET search(registry, env.receiver),
             same_second \in {b \in BOOLEAN : b => files[env.receiver] # <<>>} :
             DeliverQueued(env, accepts, same_second, apns_ok)
    \/ Tick
    \/ \E absent \in BOOLEAN, error \in Raisable : Visit(absent, error)
    \/ \E accepts \in SUBSET reception.sessions, error \in Raisable : Push(accepts, error)
    \/ \E error \in Raisable : Remove(error)
    \/ EndPass

SpecDrain == Init /\ [][NextDrain]_vars

----------------------------------------------------------------------------
(* What the properties below read off a state *)

Range(seq) == {seq[i] : i \in 1..Len(seq)}

\* how many lines of the files fl hold the line l
Occurrences(fl, l) ==
    Cardinality(UNION {{<<i, j>> : j \in {k \in 1..Len(fl[i]) : fl[i][k] = l}} :
                       i \in 1..Len(fl)})

\* the connections that accepted the message signed sig
Accepted(sig) == {c \in Conn : sig \in Range(inbox[c])}

\* the most recent call was Dispatcher.deliver
Delivering == lastOp.op = "deliver"

\* the receiver, or the group when the envelope has one, is everyone
IsBroadcastEnvelope(m) ==
    \/ m.group = None /\ m.receiver = EVERYONE
    \/ m.group # None /\ m.group = EVERYONE

\* the most recent call was a deliver that no session accepted
OfflineFallback ==
    /\ Delivering
    /\ ~IsBroadcastEnvelope(lastOp.msg)
    /\ Accepted(lastOp.msg.sig) = {}

\* the message of the most recent deliver is in no offline queue
NotStored == \A r \in Receivers : Occurrences(files[r], lastOp.msg.sig) = 0

\* the message of the most recent deliver is once in its receiver's offline
\* queue and in no other
StoredOnce ==
    \A r \in Receivers :
        Occurrences(files[r], lastOp.msg.sig) = IF r = lastOp.msg.receiver THEN 1 ELSE 0

\* the sessions of identifier r that are valid and active
ValidActive(r) == {c \in search(registry, r) : session[c].valid /\ session[c].active}

----------------------------------------------------------------------------
(* Dispatcher.deliver *)

\* C1: when at least one valid and active session of the recipient accepted
\* the push, deliver returned true, stored nothing offline and invoked no push
\* notification, whatever the recipient's other sessions answered.
C1_AtLeastOneDelivery ==
    (Delivering /\ ValidActive(lastOp.msg.receiver) \cap Accepted(lastOp.msg.sig) # {})
    => /\ lastOp.result = TRUE
       /\ ~lastOp.raised
       /\ NotStored
       /\ lastOp.apns = <<>>

\* two sessions of the recipient were pushed to, one accepted and one failed
C1_Witness ==
    /\ Delivering
    /\ lastOp.result = TRUE
    /\ \E c, d \in lastOp.attempted :
          c \in Accepted(lastOp.msg.sig) /\ d \notin Accepted(lastOp.msg.sig)

\* C2: for an envelope that is neither broadcast nor blocked, when the
\* recipient had no session or no push was accepted, the envelope is in the
\* recipient's offline queue exactly once after the one call of deliver.
C2_StoredExactlyOnce ==
    (/\ Delivering
     /\ ~IsBroadcastEnvelope(lastOp.msg)
     /\ <<lastOp.msg.sender, lastOp.msg.receiver>> \notin blockList
     /\ \/ search(registry, lastOp.msg.receiver) = {}
        \/ Accepted(lastOp.msg.sig) = {})
    => StoredOnce

\* every push to the recipient's sessions was rejected and the envelope is stored
C2_Witness ==
    /\ Delivering
    /\ lastOp.attempted # {}
    /\ Accepted(lastOp.msg.sig) = {}
    /\ StoredOnce

C4_OnlyValidActivePushed ==
    Delivering
    => /\ \A c \in lastOp.attempted \cup Accepted(lastOp.msg.sig) :
              session[c].valid /\ session[c].active
       /\ ~IsBroadcastEnvelope(lastOp.msg)
          => /\ lastOp.attempted = ValidActive(lastOp.msg.receiver)
             /\ NotStored <=> Accepted(lastOp.msg.sig) # {}
             /\ Accepted(lastOp.msg.sig) # {} => lastOp.result = TRUE

\* the recipient has a valid, active session and a valid, inactive one; only
\* the first was pushed to, it failed, and the envelope went offline
C4_Witness ==
    /\ Delivering
    /\ \E c, d \in search(registry, lastOp.msg.receiver) :
          /\ session[c].valid /\ session[c].active
          /\ session[d].valid /\ ~session[d].active
          /\ lastOp.attempted = {c}
    /\ StoredOnce

\* C5 as claimed: when the sender is blocked for the recipient, deliver
\* returns false without a session lookup, a push, a store or a notification.
C5_BlockedDropped ==
    (/\ Delivering
     /\ ~IsBroadcastEnvelope(lastOp.msg)
     /\ <<lastOp.msg.sender, lastOp.msg.receiver>> \in blockList)
    => /\ lastOp.result = FALSE
       /\ ~lastOp.searched
       /\ lastOp.attempted = {}
       /\ Accepted(lastOp.msg.sig) = {}
       /\ NotStored
       /\ lastOp.apns = <<>>

\* C6 as claimed: when the sender is muted by the recipient and no session
\* accepted the envelope, deliver stores it, returns true and calls no push
\* notification.
C6_MutedStoredSilently ==
    (/\ Delivering
     /\ ~IsBroadcastEnvelope(lastOp.msg)
     /\ is_user(lastOp.msg.receiver)
     /\ lastOp.msg.sender \in muteList[lastOp.msg.receiver].list
     /\ Accepted(lastOp.msg.sig) = {})
    => /\ StoredOnce
       /\ lastOp.result = TRUE
       /\ lastOp.apns = <<>>

\* C7: when the receiver, or the group when the envelope has one, is
\* everyone, deliver returns what the broadcast collaborator returned and did
\* no block check, no session lookup, no push, no store and no notification.
C7_BroadcastShortCircuit ==
    (Delivering /\ IsBroadcastEnvelope(lastOp.msg))
    => /\ lastOp.result = broadcast(lastOp.msg)
       /\ ~lastOp.raised
       /\ ~lastOp.block_checked
       /\ ~lastOp.searched
       /\ lastOp.attempted = {}
       /\ Accepted(lastOp.msg.sig) = {}
       /\ NotStored
       /\ lastOp.apns = <<>>

\* an envelope to a user who has a valid, active session, with group everyone
C7_Witness ==
    /\ Delivering
    /\ lastOp.msg.group = EVERYONE
    /\ is_user(lastOp.msg.receiver)
    /\ ValidActive(lastOp.msg.receiver) # {}
    /\ lastOp.result = FALSE

\* the sender is not muted by the recipient of the most recent deliver
NotMuted ==
    is_user(lastOp.msg.receiver)
    => lastOp.msg.sender \notin muteList[lastOp.msg.receiver].list

\* the types for which __push_msg has a phrase
PushedTypes ==
    {0, ContentType.Text, ContentType.File, ContentType.Image,
     ContentType.Audio, ContentType.Video}

----------------------------------------------------------------------------
(* MessageProcessor.process_handshake *)

\* the step is the handshake of sender on connection c with key k
HandshakeStep(c, sender, k) ==
    lastOp'.op = "handshake" /\ Handshake(c, sender, k)

\* C9 as claimed: after every handshake attempt the session is valid if and
\* only if the key submitted in that attempt equals the issued one.
C9_ValidIffLastKey ==
    [][\A c \in Conn, sender \in Users, k \in Keys \cup {None} :
          HandshakeStep(c, sender, k)
          => (session'[c].valid <=> k = session'[c].session_key)]_vars

\* C9 as amended: after a handshake attempt the session is valid if and only
\* if it was valid before or the submitted key equals the issued one; the
\* issued key never changes, and an attempt with another key is answered with
\* that same key and changes neither the session nor the guests.
C9_ValidOnceMatched ==
    [][\A c \in Conn, sender \in Users, k \in Keys \cup {None} :
          HandshakeStep(c, sender, k)
          => LET before == current_session(c, sender)
             IN  /\ session'[c].valid <=> (before.valid \/ k = before.session_key)
                 /\ session'[c].session_key = before.session_key
                 /\ k # before.session_key
                    => /\ lastOp'.response.message = "DIM?"
                       /\ lastOp'.response.session = before.session_key
                       /\ session'[c] = before
                       /\ guests' = guests]_vars

\* a valid session was just answered with its own key to try again
C9_Witness ==
    /\ lastOp.op = "handshake"
    /\ lastOp.response.message = "DIM?"
    /\ \E c \in Conn :
          /\ session[c].valid
          /\ lastOp.response.session = session[c].session_key

\* C10: a handshake whose key equals the issued one leaves the session valid
\* and active, appends the sender to the guests and is answered with success.
C10_MatchingKeyAccepted ==
    [][\A c \in Conn, sender \in Users, k \in Keys \cup {None} :
          (HandshakeStep(c, sender, k) /\ k = current_session(c, sender).session_key)
          => /\ session'[c].valid = TRUE
             /\ session'[c].active = TRUE
             /\ session'[c].identifier = sender
             /\ guests' = Append(guests, sender)
             /\ lastOp'.response.message = "DIM!"]_vars

\* a handshake was just answered with success, its session is valid and
\* active and its sender is the newest guest
C10_Witness ==
    /\ lastOp.op = "handshake"
    /\ lastOp.response.message = "DIM!"
    /\ guests # <<>>
    /\ \E c \in Conn :
          /\ session[c].valid /\ session[c].active
          /\ session[c].identifier = guests[Len(guests)]

\* C11: a handshake whose key differs from the session's key, a handshake
\* without a key included, is answered again with the session's key and
\* leaves the session's valid and active flags, its key and the guests as
\* they were.
C11_MismatchChangesNothing ==
    [][\A c \in Conn, sender \in Users, k \in Keys \cup {None} :
          (HandshakeStep(c, sender, k) /\ k # current_session(c, sender).session_key)
          => /\ lastOp'.response.command = "handshake"
             /\ lastOp'.response.message = "DIM?"
             /\ lastOp'.response.session = current_session(c, sender).session_key
             /\ session'[c].valid = current_session(c, sender).valid
             /\ session'[c].active = current_session(c, sender).active
             /\ session'[c].session_key = current_session(c, sender).session_key
             /\ guests' = guests]_vars

\* a valid session that is in the background was just answered again with
\* its key, and is still valid and in the background
C11_Witness ==
    /\ lastOp.op = "handshake"
    /\ lastOp.response.message = "DIM?"
    /\ \E c \in Conn :
          /\ session[c].valid /\ ~session[c].active
          /\ lastOp.response.session = session[c].session_key

----------------------------------------------------------------------------
(* Receptionist.run *)

\* how many entries of the list gs are the identifier
Entries(gs, identifier) == Cardinality({i \in 1..Len(gs) : gs[i] = identifier})

\* the step takes one entry of the identifier out of the worklist
Untracks(identifier) ==
    /\ Len(guests') = Len(guests) - 1
    /\ \A u \in Users :
          Entries(guests', u) = Entries(guests, u) - (IF u = identifier THEN 1 ELSE 0)

\* the step is one of the Receptionist
ReceptionStep == lastOp'.op \in {"tick", "visit", "push", "remove", "sleep"}

\* the lines of all the files fl, oldest first
RECURSIVE Queue(_)
Queue(fl) == IF fl = <<>> THEN <<>> ELSE Head(fl) \o Queue(Tail(fl))

\* some session has accepted the message signed sig
InSomeInbox(sig) == \E c \in Conn : sig \in Range(inbox[c])

\* C12 as claimed: a guest leaves the worklist if and only if it has no
\* session, or its queue is empty, or a drain delivered none of its messages;
\* a drain that delivers some but not all of them leaves it tracked.
C12_UntrackedIffNothingDelivered ==
    [][ReceptionStep
       => (guests' # guests
           <=> \/ /\ lastOp'.op = "visit"
                  /\ lastOp'.log.sessions = {}
               \/ /\ lastOp'.op = "visit"
                  /\ lastOp'.log.sessions # {}
                  /\ lastOp'.log.raised = None
                  /\ Len(lastOp'.log.batch.messages) = 0
               \/ /\ lastOp'.op = "remove"
                  /\ lastOp'.log.raised = None
                  /\ lastOp'.log.count = 0)]_vars

\* C12 as amended: an entry of a guest leaves the worklist if and only if the
\* guest has no session, or its batch is absent, or a drain delivered fewer
\* messages than its batch holds, none or some; the entry stays when the drain
\* delivered the whole batch, when the batch is there without messages and
\* when an error ended the pass.
C12_UntrackedIffDrainFellShort ==
    [][ReceptionStep
       => /\ guests' # guests
             <=> \/ /\ lastOp'.op = "visit"
                    /\ lastOp'.log.sessions = {}
                 \/ /\ lastOp'.op = "visit"
                    /\ lastOp'.log.sessions # {}
                    /\ lastOp'.log.raised = None
                    /\ ~lastOp'.log.batch.present
                 \/ /\ lastOp'.op = "remove"
                    /\ lastOp'.log.raised = None
                    /\ lastOp'.log.count < Len(lastOp'.log.messages)
          /\ guests' # guests => Untracks(lastOp'.log.identifier)]_vars

\* a drain pushed some messages of a batch but not all, and the guest's entry
\* left the worklist
C12_Witness ==
    /\ lastOp.op = "remove"
    /\ lastOp.log.raised = None
    /\ lastOp.log.count > 0
    /\ lastOp.log.count < Len(lastOp.log.messages)
    /\ lastOp.log.untracked

\* C13 as claimed: after a drain that delivered fewer messages than the batch
\* holds the guest is untracked, the undelivered messages are at the head of
\* its queue, and the pass does not come back to the guest.
C13_ShortDrainUntracks ==
    (/\ lastOp.op = "remove"
     /\ lastOp.log.raised = None
     /\ lastOp.log.count < Len(lastOp.log.messages))
    => /\ lastOp.log.untracked
       /\ ~has_guest(reception.guests, lastOp.log.identifier)
       /\ LET left == SubSeq(lastOp.log.messages, lastOp.log.count + 1,
                             Len(lastOp.log.messages))
              queue == Queue(files[lastOp.log.identifier])
          IN  /\ Len(queue) >= Len(left)
              /\ SubSeq(queue, 1, Len(left)) = left

\* C14: a visit of a guest for which the registry has no session takes its
\* entry out of the worklist and loads no batch, pushes nothing and removes
\* nothing from storage.
C14_NoSessionUntracksOnly ==
    [][(lastOp'.op = "visit" /\ lastOp'.log.sessions = {})
       => /\ Untracks(lastOp'.log.identifier)
          /\ ~lastOp'.log.loaded
          /\ files' = files
          /\ inbox' = inbox
          /\ reception'.pc = "guest"]_vars

\* a guest with queued messages and no session was just untracked
C14_Witness ==
    /\ lastOp.op = "visit"
    /\ lastOp.log.sessions = {}
    /\ lastOp.log.untracked
    /\ ~lastOp.log.loaded
    /\ files[lastOp.log.identifier] # <<>>

\* C15 as claimed: when the batch of a connected guest is absent or has no
\* messages, the guest is untracked and its badge is cleared.
C15_EmptyBatchUntracks ==
    (/\ lastOp.op = "visit"
     /\ lastOp.log.sessions # {}
     /\ lastOp.log.raised = None
     /\ Len(lastOp.log.batch.messages) = 0)
    => /\ lastOp.log.untracked
       /\ lastOp.log.badge_cleared

\* C15 as amended: when the batch of a connected guest is absent, its entry
\* leaves the worklist and its badge is cleared; when the batch is there
\* without messages the worklist is as it was and no badge is cleared; in
\* both cases nothing is pushed or removed.
C15_AbsentBatchUntracks ==
    [][(/\ lastOp'.op = "visit"
        /\ lastOp'.log.sessions # {}
        /\ lastOp'.log.raised = None
        /\ Len(lastOp'.log.batch.messages) = 0)
       => /\ IF lastOp'.log.batch.present
             THEN guests' = guests /\ ~lastOp'.log.badge_cleared
             ELSE Untracks(lastOp'.log.identifier) /\ lastOp'.log.badge_cleared
          /\ lastOp'.log.loaded
          /\ files' = files
          /\ inbox' = inbox]_vars

\* a connected guest without a batch was just untracked and its badge cleared
C15_Witness ==
    /\ lastOp.op = "visit"
    /\ lastOp.log.sessions # {}
    /\ lastOp.log.loaded
    /\ lastOp.log.raised = None
    /\ ~lastOp.log.batch.present
    /\ lastOp.log.untracked
    /\ lastOp.log.badge_cleared

C17_EnqueueOrder ==
    [][(lastOp'.op = "push" /\ lastOp'.log.attempted # {})
       => \A sig \in 1..(lastOp'.log.message - 1) : InSomeInbox(sig)]_vars

\* the Receptionist pushed the second message of a batch to a session that
\* got the first from it before
C17_Witness ==
    /\ lastOp.op = "push"
    /\ lastOp.log.message = 2
    /\ reception.messages = <<1, 2>>
    /\ \E c \in lastOp.log.accepted : inbox[c] = <<1, 2>>

\* C18: every envelope that deliver took past the broadcast and block checks
\* has been accepted by a session or is in the recipient's offline queue.
C18_NoMessageLost ==
    \A sig \in 1..(nextSig - 1) :
        \/ InSomeInbox(sig)
        \/ \E e \in QueuedEnvelopes : Occurrences(files[e.receiver], sig) > 0

\* after a drain that pushed its whole batch the queue is empty and every
\* envelope handed to deliver is with a session
C18_Witness ==
    /\ lastOp.op = "remove"
    /\ lastOp.log.removed_count = Len(lastOp.log.messages)
    /\ nextSig > 2
    /\ files[lastOp.log.identifier] = <<>>
    /\ \A sig \in 1..(nextSig - 1) : InSomeInbox(sig)

\* C19 as claimed: no session is pushed the same queued message twice, an
\* aborted pass included.
C19_NoMessageTwice ==
    \A c \in Conn : \A i, j \in 1..Len(inbox[c]) : inbox[c][i] = inbox[c][j] => i = j

\* C20 as claimed: no error raised while a guest is processed ends the
\* Receptionist loop.
C20_LoopNeverEnds ==
    reception.pc # "raised"

\* the visit just made loaded a batch that could not be used: the load
\* raised, or the batch came without messages
FailedBatch ==
    /\ lastOp'.op = "visit"
    /\ lastOp'.log.loaded
    /\ \/ lastOp'.log.raised # None
       \/ lastOp'.log.batch.present /\ lastOp'.log.batch.messages = <<>>

\* C21: a visit whose batch fails to load or parse changes neither the
\* worklist nor the offline queue and leaves the guest tracked; after an
\* error of a class the loop catches the loop sleeps, and the snapshot of
\* every tick is the whole worklist, so the next pass visits the guest again.
C21_FailedBatchKeepsGuest ==
    [][/\ FailedBatch =>
            /\ guests' = guests
            /\ files' = files
            /\ has_guest(guests', lastOp'.log.identifier)
            /\ lastOp'.log.raised # None /\ lastOp'.log.raised \in {"IOError",
                   "JSONDecodeError", "TypeError", "ValueError"} => reception'.pc = "sleep"
       /\ lastOp'.op = "tick" => reception'.guests = guests /\ reception'.pc = "guest"
      ]_vars

\* the load for U2 just raised IOError: U2 is still a guest, its queue is
\* still stored and the loop sleeps until the next tick
C21_Witness ==
    /\ lastOp.op = "visit"
    /\ lastOp.log.loaded
    /\ lastOp.log.raised = "IOError"
    /\ lastOp.log.identifier = "U2"
    /\ has_guest(guests, "U2")
    /\ Queue(files["U2"]) # <<>>
    /\ reception.pc = "sleep"

----------------------------------------------------------------------------
(* The Receptionist thread under fair scheduling *)

\* one step of Receptionist.run in which no collaborator raises and every
\* push to a receivable session returns true
ReceptionistRuns ==
    \/ Tick
    \/ \E absent \in BOOLEAN : Visit(absent, None)
    \/ Push(reception.sessions, None)
    \/ Remove(None)
    \/ EndPass

\* the connection workers of U2 and the Receptionist thread
NextLive ==
    \/ \E c \in Conn : \E k \in {issued(c), None} : Handshake(c, "U2", k)
    \/ \E c \in Conn, state \in States : Report(c, "U2", state)
    \/ \E c \in Conn : Disconnect(c)
    \/ \E env \in QueuedEnvelopes :
          \E accepts \in SUBSET search(registry, env.receiver),
             same_second \in {b \in BOOLEAN : b => files[env.receiver] # <<>>} :
             DeliverQueued(env, accepts, same_second, TRUE)
    \/ ReceptionistRuns

\* the Receptionist is a thread of its own: a step it can take is taken
SpecLive == Init /\ [][NextLive]_vars /\ WF_vars(ReceptionistRuns)

\* the message signed sig is in U2's offline queue
InQueue(sig) == sig \in Range(Queue(files["U2"]))

\* the most recent step was one of the Receptionist: no connection worker
\* has handled a handshake, a report, a disconnection or a delivery since
Quiet == lastOp.op \in {"tick", "visit", "push", "remove", "sleep"}

Registered ==
    \/ lastOp.op = "handshake" /\ lastOp.response.message = "DIM!"
    \/ lastOp.op = "report" /\ lastOp.registered

----------------------------------------------------------------------------
(* The Receptionist thread of a station that can be stopped *)

NextStop ==
    \/ \E c \in Conn : Handshake(c, "U2", issued(c))
    \/ \E c \in Conn : Disconnect(c)
    \/ \E env \in QueuedEnvelopes :
          \E accepts \in SUBSET search(registry, env.receiver),
             same_second \in {b \in BOOLEAN : b => files[env.receiver] # <<>>} :
             DeliverQueued(env, accepts, same_second, TRUE)
    \/ Tick
    \/ \E absent \in BOOLEAN, error \in Raisable : Visit(absent, error)
    \/ \E accepts \in SUBSET reception.sessions, error \in Raisable : Push(accepts, error)
    \/ \E error \in Raisable : Remove(error)
    \/ EndPass
    \/ Stop
    \/ Exit

SpecStop == Init /\ [][NextStop]_vars

\* run() has been left: the while loop ended or an exception went out of it
Ended == reception.pc \in {"exit", "raised"}

\* C23 as claimed: the Receptionist loop is left only when station.running
\* has become false.
C23_EndsOnlyWhenStopped ==
    Ended => ~running

----------------------------------------------------------------------------
(* The worklist and the snapshot of the running pass *)

\* the entries of identifier in the worklist gs that are not among the
\* entries rg the running pass still has in front of it: the registrations
\* made since the snapshot was taken
Pending(gs, rg, identifier) == Entries(gs, identifier) - Entries(rg, identifier)

\* C24: the snapshot of a pass is a copy of the whole worklist; no step of the
\* Receptionist takes out of the worklist an entry registered since the
\* snapshot, also when it untracks the very identifier that was registered
\* again, and the next tick copies every entry into its snapshot.
C24_RegistrationNeverLost ==
    [][/\ lastOp'.op = "tick" => reception'.guests = guests /\ guests' = guests
       /\ ReceptionStep /\ lastOp'.op # "tick" =>
             \A u \in Users :
                /\ Pending(guests', reception'.guests, u) >= Pending(guests, reception.guests, u)
                /\ Pending(guests', reception'.guests, u) >= 0
      ]_vars

\* U2 registered again while the pass was processing U2: the pass has just
\* untracked U2 and U2 is still in the worklist, outside the snapshot
C24_Witness ==
    /\ lastOp.op = "remove"
    /\ lastOp.log.untracked
    /\ lastOp.log.identifier = "U2"
    /\ guests = <<"U2">>
    /\ reception.guests = <<>>

----------------------------------------------------------------------------
(* MessageProcessor.process *)

\* station.identifier
Station == "station"

\* the command names MessageProcessor.process_command tests for
Commands == {"handshake", "meta", "profile", "users", "search", "broadcast"}

\* what a client puts into an envelope for the station: a handshake with or
\* without a key, a broadcast command (a report, a device token, another
\* title), a query by one of the other commands, a command the station does
\* not know, or a text
Contents ==
    [type : {ContentType.Command}, command : {"handshake"}, session : Keys \cup {None}]
    \cup [type : {ContentType.Command}, command : {"broadcast"}, title : {"report"},
          state : States]
    \cup [type : {ContentType.Command}, command : {"broadcast"}, title : {"apns"},
          device_token : DeviceTokens \cup {None}]
    \cup [type : {ContentType.Command}, command : {"broadcast"}, title : {"online"}]
    \cup [type : {ContentType.Command},
          command : {"meta", "profile", "users", "search", "login", "block"}]
    \cup [type : {ContentType.Text}, text : {"hello"}]

\* the client whose envelopes the processor handles, and its connection
Clients == {"U1"}

Lines == {"c1"}

\* the envelopes a client sends to the station, one with each content;
\* verified is what station.verify_message finds
StationRequests ==
    [verified : BOOLEAN, sender : Clients, receiver : {Station}, time : {None},
     group : {None}, type : {ContentType.Command}, content : Contents]

\* the envelopes a client sends to a peer: a text to a user (itself
\* included, which reaches its own sessions), a text and a
\* command to a group, with and without time and group; the station does
\* not decrypt their content
PeerRequests ==
    [verified : BOOLEAN, sender : Clients, receiver : Users, time : {None, "t1"},
     group : {None} \cup Groups, type : {ContentType.Text}, content : {[type |-> None]}]
    \cup [verified : BOOLEAN, sender : Clients, receiver : Groups, time : {None, "t1"},
          group : {None} \cup Groups, type : {ContentType.Text, ContentType.Command},
          content : {[type |-> None]}]

\* the response of process to an envelope whose signature does not verify
signature_error_plain(msg) == [type |-> ContentType.Text, text |-> "Signature error"]

signature_error(msg) ==
    [type |-> ContentType.Text, text |-> "Signature error", signature |-> msg.sig]

\* "if not session.valid" in process: handshake first
handshake_first_never(sess) == FALSE

handshake_first(sess) == ~sess.valid

\* "if not session.valid" in the broadcast branch of process_command
broadcast_refused_never(sess) == FALSE

broadcast_refused(sess) == ~sess.valid

\* the branch of the if/elif chain of process_command a command name takes
branch_default_users(command) ==
    IF command \in Commands THEN command ELSE "users"

branch(command) == IF command \in Commands THEN command ELSE "else"

\* the response of deliver_message: a receipt with the envelope's sender,
\* receiver and signature, its time when it has one, and its group when it
\* has one that is not the receiver
receipt_all_fields(msg) ==
    [command |-> "receipt", message |-> "Message delivering", sender |-> msg.sender,
     receiver |-> msg.receiver, time |-> msg.time, group |-> msg.group,
     signature |-> msg.sig]

receipt(msg) ==
    LET response == [command |-> "receipt", message |-> "Message delivering",
                     sender |-> msg.sender, receiver |-> msg.receiver,
                     time |-> msg.time, group |-> msg.group, signature |-> msg.sig]
        fields == {"command", "message", "sender", "receiver", "signature"}
                  \cup (IF msg.time # None THEN {"time"} ELSE {})
                  \cup (IF msg.group # None /\ msg.group # msg.receiver
                        THEN {"group"} ELSE {})
    IN  [f \in fields |-> response[f]]

\* the answer of a command that only reads the database or the session server
\* (meta, profile, users, search); found is what the lookup finds
answer(command, found) ==
    IF command \in {"meta", "profile"} /\ ~found
    THEN [type |-> ContentType.Text, text |-> "not found"]
    ELSE [command |-> command]

\* MessageProcessor.process_broadcast_command on the connection's session
\* sess, of the client identifier.  The result is the session, the worklist
\* and the device tokens afterwards and the response
process_broadcast_command(sess, gs, tk, identifier, cmd) ==
    LET same == [session |-> sess, guests |-> gs, tokens |-> tk, response |-> NoResponse]
    IN  IF cmd.title = "report"
        THEN LET out == process_report(sess, gs, cmd.state)
             IN  [same EXCEPT !.session = out.session, !.guests = out.guests,
                              !.response = out.response]
        ELSE IF cmd.title = "apns"
        THEN IF cmd.device_token # None
             THEN [same EXCEPT !.tokens = [tk EXCEPT ![identifier] = cmd.device_token],
                               !.response = [command |-> "receipt",
                                             message |-> "Token received"]]
             ELSE same
        ELSE same

\* MessageProcessor.process_command on connection c.  touched says whether
\* current_session was called, which makes the session when there is none
process_command(c, gs, tk, sender, content, found) ==
    LET sess == current_session(c, sender)
        same == [touched |-> FALSE, session |-> session[c], guests |-> gs,
                 tokens |-> tk, response |-> NoResponse]
        shake(key) ==
            LET out == process_handshake(sess, gs, sender, key)
            IN  [same EXCEPT !.touched = TRUE, !.session = out.session,
                             !.guests = out.guests, !.response = out.response]
    IN  CASE branch(content.command) = "handshake" -> shake(content.session)
          [] branch(content.command) \in {"meta", "profile", "users", "search"} ->
                [same EXCEPT !.response = answer(content.command, found)]
          [] branch(content.command) = "broadcast" ->
                IF broadcast_refused(sess)
                THEN shake(None)
                ELSE LET out == process_broadcast_command(sess, gs, tk,
                                                          sess.identifier, content)
                     IN  [same EXCEPT !.touched = TRUE, !.session = out.session,
                                      !.guests = out.guests, !.tokens = out.tokens,
                                      !.response = out.response]
          [] OTHER -> same

\* MessageProcessor.process of the envelope msg on connection c.  The result
\* is the state afterwards, the response, and a log: whether the content was
\* decrypted, how often Dispatcher.deliver was called, what it returned and
\* whether it raised
process(c, msg, accepts, same_second, apns_ok, found) ==
    LET sess == current_session(c, msg.sender)
        same == [touched |-> FALSE, session |-> session[c], guests |-> guests,
                 tokens |-> tokens, files |-> files, inbox |-> inbox,
                 response |-> NoResponse,
                 log |-> [decrypted |-> FALSE, delivers |-> 0, result |-> FALSE,
                          raised |-> FALSE]]
    IN  IF ~msg.verified
        THEN [same EXCEPT !.response = signature_error(msg)]
        ELSE IF msg.receiver = Station
        THEN IF msg.content.type = ContentType.Command
             THEN LET out == process_command(c, guests, tokens, msg.sender,
                                             msg.content, found)
                  IN  [same EXCEPT !.touched = out.touched, !.session = out.session,
                                   !.guests = out.guests, !.tokens = out.tokens,
                                   !.response = out.response, !.log.decrypted = TRUE]
             ELSE [same EXCEPT !.response = msg.content, !.log.decrypted = TRUE]
        ELSE IF handshake_first(sess)
        THEN LET out == process_handshake(sess, guests, msg.sender, None)
             IN  [same EXCEPT !.touched = TRUE, !.session = out.session,
                              !.guests = out.guests, !.response = out.response]
        ELSE LET out == deliver(msg, registry, session, files, inbox, guests,
                                accepts, same_second, apns_ok)
             IN  [same EXCEPT !.touched = TRUE, !.session = sess,
                              !.guests = out.guests, !.files = out.files,
                              !.inbox = out.inbox,
                              !.response = IF out.raised THEN NoResponse
                                           ELSE receipt(msg),
                              !.log.delivers = 1, !.log.result = out.result,
                              !.log.raised = out.raised]

\* a connection worker handles one envelope from sender on connection c
Process(c, msg, accepts, same_second, apns_ok, found) ==
    /\ session[c] = NoSession \/ session[c].identifier = msg.sender
    /\ \E out \in {process(c, msg, accepts, same_second, apns_ok, found)} :
           /\ Len(out.guests) <= MaxGuests
           /\ out.log.delivers > 0 => nextSig <= MaxMsgs
           /\ session' = IF out.touched THEN [session EXCEPT ![c] = out.session]
                         ELSE session
           /\ registry' = IF out.touched THEN current_registry(c, msg.sender)
                          ELSE registry
           /\ guests' = out.guests
           /\ tokens' = out.tokens
           /\ files' = out.files
           /\ inbox' = out.inbox
           /\ nextSig' = nextSig + out.log.delivers
           /\ lastOp' = [op |-> "process", c |-> c, msg |-> msg,
                         response |-> out.response, log |-> out.log]
    /\ UNCHANGED <<db, worker, blockList, muteList, reception, running>>

\* the envelope of a request, signed as the next envelope
signed(req) ==
    [sig |-> nextSig, verified |-> req.verified, sender |-> req.sender,
     receiver |-> req.receiver, time |-> req.time, group |-> req.group,
     type |-> req.type, content |-> req.content]

\* process hands the envelope of req to Dispatcher.deliver: only then do the
\* answers of push_message, the clock and apns.push matter
delivering(c, req) == req.verified /\ session[c].valid

\* the connection workers of the station, each handling whole envelopes
NextProc ==
    \/ \E c \in Lines, req \in StationRequests :
          \E found \in {b \in BOOLEAN : ~b => /\ req.verified
                                              /\ req.content.type = ContentType.Command
                                              /\ req.content.command \in {"meta", "profile"}} :
             Process(c, signed(req), {}, FALSE, TRUE, found)
    \/ \E c \in Lines, req \in PeerRequests :
          \E accepts \in SUBSET (IF delivering(c, req)
                                 THEN search(registry, req.receiver) ELSE {}),
             same_second \in {b \in BOOLEAN : b => /\ delivering(c, req)
                                                    /\ files[req.receiver] # <<>>},
             apns_ok \in {b \in BOOLEAN : ~b => delivering(c, req)} :
             Process(c, signed(req), accepts, same_second, apns_ok, TRUE)
    \/ \E c \in Lines : Disconnect(c)

SpecProc == Init /\ [][NextProc]_vars

----------------------------------------------------------------------------
(* MessageProcessor.process: what one call does *)

\* the step is one call of process whose envelope verified, or did not
Verified == lastOp'.op = "process" /\ lastOp'.msg.verified

Unverified == lastOp'.op = "process" /\ ~lastOp'.msg.verified

\* the step is one call of process with a command for the station
Commanded ==
    /\ Verified
    /\ lastOp'.msg.receiver = Station
    /\ lastOp'.msg.content.type = ContentType.Command

\* the step is one call of process with an envelope for a peer
ToPeer == Verified /\ lastOp'.msg.receiver # Station

\* the step leaves sessions, registry and worklist as they were
SameSessions == session' = session /\ registry' = registry /\ guests' = guests

\* the step leaves the stored messages, the inboxes and the device tokens
SameStorage == files' = files /\ inbox' = inbox /\ tokens' = tokens

\* the handshake challenge for the session on connection c after the step
Challenge(c) ==
    [command |-> "handshake", message |-> "DIM?", session |-> session'[c].session_key]

\* C25: for an envelope whose signature does not verify, process returns the
\* text "Signature error" with the envelope's signature, decrypts nothing,
\* does not call Dispatcher.deliver, and changes no session, no worklist entry
\* and nothing stored.
C25_SignatureErrorChangesNothing ==
    [][Unverified =>
          /\ lastOp'.response = [type |-> ContentType.Text, text |-> "Signature error",
                                 signature |-> lastOp'.msg.sig]
          /\ ~lastOp'.log.decrypted
          /\ lastOp'.log.delivers = 0
          /\ SameSessions
          /\ SameStorage
          /\ nextSig' = nextSig
      ]_vars

\* a handshake with the session's own key arrived in an envelope that did not
\* verify: the answer is the signature error and the session is still invalid
C25_Witness ==
    /\ lastOp.op = "process"
    /\ ~lastOp.msg.verified
    /\ lastOp.msg.receiver = Station
    /\ lastOp.msg.content.type = ContentType.Command
    /\ lastOp.msg.content.command = "handshake"
    /\ lastOp.msg.content.session = session[lastOp.c].session_key
    /\ session[lastOp.c].identifier = lastOp.msg.sender
    /\ ~session[lastOp.c].valid
    /\ lastOp.response.text = "Signature error"
    /\ lastOp.response.signature = lastOp.msg.sig

\* C26: for a verified envelope for a peer from a sender whose session is not
\* valid, process returns the handshake challenge with the session's key and
\* Dispatcher.deliver is not called: nothing is pushed and nothing stored,
\* and the session stays invalid.
C26_InvalidSenderNotDelivered ==
    [][ToPeer /\ ~session[lastOp'.c].valid =>
          /\ lastOp'.response = Challenge(lastOp'.c)
          /\ lastOp'.log.delivers = 0
          /\ ~session'[lastOp'.c].valid
          /\ guests' = guests
          /\ SameStorage
          /\ nextSig' = nextSig
      ]_vars

\* an envelope for U2 came from a sender that has a session that never
\* completed the handshake, and was answered with the challenge
C26_Witness ==
    /\ lastOp.op = "process"
    /\ lastOp.msg.verified
    /\ lastOp.msg.receiver = "U2"
    /\ session[lastOp.c].identifier = lastOp.msg.sender
    /\ ~session[lastOp.c].valid
    /\ lastOp.response = [command |-> "handshake", message |-> "DIM?",
                          session |-> session[lastOp.c].session_key]
    /\ files["U2"] = <<>>

\* the step is one call of process that handed an envelope for a peer, from a
\* sender whose session is valid, to Dispatcher.deliver, and deliver returned
Delivered ==
    /\ ToPeer
    /\ session[lastOp'.c].valid
    /\ ~lastOp'.log.raised

Broadcast(title) ==
    /\ Commanded
    /\ lastOp'.msg.content.command = "broadcast"
    /\ lastOp'.msg.content.title = title

\* C28: a presence report on a valid session sets active to false for the
\* state background, sets active to true and appends the session's identifier
\* to the guest worklist for the state foreground, and sets active to true
\* and leaves the worklist alone for any other state; the session stays valid.
C28_ReportSetsActive ==
    [][Broadcast("report") /\ session[lastOp'.c].valid =>
          /\ session'[lastOp'.c].valid
          /\ (lastOp'.msg.content.state = "background" =>
                 /\ ~session'[lastOp'.c].active
                 /\ guests' = guests)
          /\ (lastOp'.msg.content.state = "foreground" =>
                 /\ session'[lastOp'.c].active
                 /\ guests' = Append(guests, session[lastOp'.c].identifier))
          /\ (lastOp'.msg.content.state \notin {None, "background", "foreground"} =>
                 /\ session'[lastOp'.c].active
                 /\ guests' = guests)
      ]_vars

\* a valid session has just reported a state the station does not know: it
\* is active and still valid, and only its handshake has registered it as a
\* guest
C28_Witness ==
    /\ lastOp.op = "process"
    /\ lastOp.msg.verified
    /\ lastOp.msg.receiver = Station
    /\ lastOp.msg.content.type = ContentType.Command
    /\ lastOp.msg.content.command = "broadcast"
    /\ lastOp.msg.content.title = "report"
    /\ lastOp.msg.content.state = "unknown"
    /\ lastOp.response = [command |-> "receipt", message |-> "Client state received"]
    /\ session[lastOp.c].valid
    /\ session[lastOp.c].active
    /\ guests = <<"U1">>

\* C29: a broadcast command, a report or a device token, on a session that is
\* not valid is answered with the handshake challenge; the session keeps its
\* active flag and stays invalid, and the guest worklist and the stored
\* device tokens are unchanged.
C29_InvalidBroadcastRefused ==
    [][(Broadcast("report") \/ Broadcast("apns")) /\ ~session[lastOp'.c].valid =>
          /\ lastOp'.response = Challenge(lastOp'.c)
          /\ session'[lastOp'.c] = current_session(lastOp'.c, lastOp'.msg.sender)
          /\ guests' = guests
          /\ tokens' = tokens
      ]_vars

\* a device token was submitted on a session that never completed the
\* handshake: the answer is the challenge and no token is stored
C29_Witness ==
    /\ lastOp.op = "process"
    /\ lastOp.msg.verified
    /\ lastOp.msg.receiver = Station
    /\ lastOp.msg.content.type = ContentType.Command
    /\ lastOp.msg.content.command = "broadcast"
    /\ lastOp.msg.content.title = "apns"
    /\ lastOp.msg.content.device_token = "t1"
    /\ lastOp.response.message = "DIM?"
    /\ ~session[lastOp.c].valid
    /\ tokens[lastOp.msg.sender] = None
    /\ guests = <<>>

\* C30: a command whose name is none of handshake, meta, profile, users,
\* search and broadcast gets no response and changes no session, no worklist
\* entry and nothing stored.
C30_UnknownCommandIgnored ==
    [][Commanded /\ lastOp'.msg.content.command \notin
                        {"handshake", "meta", "profile", "users", "search", "broadcast"} =>
          /\ lastOp'.response = NoResponse
          /\ SameSessions
          /\ SameStorage
          /\ nextSig' = nextSig
      ]_vars

\* a command named login arrived on a valid session that had stored a device
\* token: nothing was answered
C30_Witness ==
    /\ lastOp.op = "process"
    /\ lastOp.msg.verified
    /\ lastOp.msg.receiver = Station
    /\ lastOp.msg.content.type = ContentType.Command
    /\ lastOp.msg.content.command = "login"
    /\ lastOp.response = NoResponse
    /\ session[lastOp.c].valid
    /\ tokens[lastOp.msg.sender] = "t1"


-----------------------------------------------------------------------------
\* Filter (libs/server/filter.py): the access checks made before a message
\* is broadcast, delivered or forwarded

\* the filter lets the message through (the check returns None)
Accept == [command |-> None]

\* HandshakeCommand.ask(session=session.session_key)
ask(session_key) ==
    [command |-> "handshake", message |-> "DIM?", session |-> session_key]

\* database.is_blocked(sender, receiver, group) over the stored block-lists
is_blocked(bl, sender, receiver, group) == <<sender, receiver>> \in bl

\* Filter.__check_blocked: the notice for a blocked sender, else None
check_blocked(bl, envelope) ==
    IF is_blocked(bl, envelope.sender, envelope.receiver, envelope.group)
    THEN [command |-> "text",
          text |-> IF envelope.group = None
                   THEN <<"Message is blocked by", envelope.receiver>>
                   ELSE <<"Message is blocked by", envelope.receiver,
                          "in group", envelope.group>>,
          group |-> envelope.group]
    ELSE Accept

\* Filter.__check_login on the resolved session sess: user is
\* messenger.remote_user
check_login(user, sess) ==
    IF user = None /\ sess.valid
    THEN [command |-> "raised", error |-> "AssertionError"]
    ELSE IF ~sess.valid THEN ask(sess.session_key) ELSE Accept

\* the block check made before the login check
check_block_first(bl, user, sess, envelope) ==
    IF check_blocked(bl, envelope) # Accept
    THEN check_blocked(bl, envelope)
    ELSE check_login(user, sess)

\* the login check alone
check_login_only(bl, user, sess, envelope) == check_login(user, sess)

\* Filter.check_broadcast
check_broadcast(bl, user, sess, envelope) ==
    IF check_login(user, sess) # Accept
    THEN check_login(user, sess)
    ELSE check_blocked(bl, envelope)

\* Filter.check_deliver
check_deliver(bl, user, sess, envelope) ==
    IF check_login(user, sess) # Accept
    THEN check_login(user, sess)
    ELSE check_blocked(bl, envelope)

\* Filter.check_forward
check_forward(bl, user, sess, envelope) ==
    IF check_login(user, sess) # Accept
    THEN check_login(user, sess)
    ELSE check_blocked(bl, envelope)

\* the three message classes the filter is asked about
Classes == {"broadcast", "deliver", "forward"}

check(class, bl, user, sess, envelope) ==
    CASE class = "broadcast" -> check_broadcast(bl, user, sess, envelope)
      [] class = "deliver" -> check_deliver(bl, user, sess, envelope)
      [] class = "forward" -> check_forward(bl, user, sess, envelope)

\* the envelopes the filter is shown
FilterEnvelopes ==
    [sender : Users, receiver : Users, group : Groups \cup {None}]

\* one filter check on connection c, whose messenger has remote user `user`
\* (None before a login); the session is the one of the remote user, or of
\* the envelope's sender when there is no remote user
Check(class, c, user, envelope) ==
    /\ session[c] # NoSession
    /\ session[c].identifier = (IF user = None THEN envelope.sender ELSE user)
    /\ lastOp' = [op |-> "check", class |-> class, c |-> c, user |-> user,
                  msg |-> envelope,
                  result |-> check(class, blockList, user, session[c], envelope)]
    /\ UNCHANGED <<db, worker, session, registry, guests, files, inbox, nextSig, blockList,
                   muteList, reception, running, tokens>>

NextFilter ==
    \/ \E c \in Conn, sender \in Users :
           \E k \in {issued(c), None} : Handshake(c, sender, k)
    \/ \E c \in Conn : Disconnect(c)
    \/ \E class \in Classes, c \in Conn, user \in Users \cup {None},
          envelope \in FilterEnvelopes : Check(class, c, user, envelope)

SpecFilter == InitAcl /\ [][NextFilter]_vars

C32_ClassesAgree ==
    lastOp.op = "check"
    => \A class \in Classes :
          check(class, blockList, lastOp.user, session[lastOp.c], lastOp.msg)
          = lastOp.result

\* a forward check that returns the block notice
C32_Witness ==
    /\ lastOp.op = "check"
    /\ lastOp.class = "forward"
    /\ session[lastOp.c].valid
    /\ lastOp.result \notin {Accept, ask(session[lastOp.c].session_key)}
    /\ lastOp.result.command = "text"


-----------------------------------------------------------------------------
\* SessionRegistry under registrations and removals

\* C33: after any sequence of registrations and removals every session is in
\* at most one registry slot, and that slot is the one of the identifier the
\* session has now.
C33_OneSlotPerSession ==
    \A c \in Conn :
        /\ Cardinality({u \in Users : c \in search(registry, u)}) <= 1
        /\ \A u \in Users :
              c \in search(registry, u) => session[c].identifier = u

\* both connections are registered, each under the identifier of its session
C33_Witness ==
    /\ lastOp.op = "handshake"
    /\ search(registry, "U1") = {"c2"}
    /\ search(registry, "U2") = {"c1"}
    /\ session["c1"].identifier = "U2"

-----------------------------------------------------------------------------
\* Database.store_message and Database.load_messages called by two threads

\* the recipient whose message directory the two threads share
Stored == "U2"

\* store_message up to the open of the file named by the current second:
\* mode 'a' creates the file when no file of that name exists
StoreOpen(same_second) ==
    /\ db.writer.pc = "idle"
    /\ nextSig \in Sigs
    /\ LET n == Len(files[Stored])
       IN IF same_second /\ n > 0
          THEN /\ db' = [db EXCEPT !.writer = [pc |-> "opened", sig |-> nextSig,
                                                target |-> n]]
               /\ files' = files
          ELSE /\ db' = [db EXCEPT !.writer = [pc |-> "opened", sig |-> nextSig,
                                                target |-> n + 1]]
               /\ files' = [files EXCEPT ![Stored] = Append(@, <<>>)]
    /\ nextSig' = nextSig + 1
    /\ lastOp' = [op |-> "open", sig |-> nextSig]
    /\ UNCHANGED <<session, registry, guests, inbox, blockList, muteList, reception,
                   running, tokens, worker>>

\* store_message from file.write to the close of the file: the line goes to
\* the file that was opened, which is no longer in the directory when
\* target is 0
StoreWrite ==
    /\ db.writer.pc = "opened"
    /\ files' = IF db.writer.target > 0
                THEN [files EXCEPT ![Stored][db.writer.target] = Append(@, db.writer.sig)]
                ELSE files
    /\ db' = [db EXCEPT !.writer = NoCalls.writer]
    /\ lastOp' = [op |-> "store", sig |-> db.writer.sig]
    /\ UNCHANGED <<session, registry, guests, inbox, nextSig, blockList, muteList,
                   reception, running, tokens, worker>>

\* load_messages up to file.read() of the first .msg file; with no file the
\* call returns None
LoadRead ==
    /\ db.loader.pc = "idle"
    /\ IF files[Stored] = <<>>
       THEN /\ db' = db
            /\ lastOp' = [op |-> "load", found |-> FALSE]
       ELSE /\ db' = [db EXCEPT !.loader = [pc |-> "read", data |-> files[Stored][1]]]
            /\ lastOp' = [op |-> "read"]
    /\ UNCHANGED <<session, registry, guests, files, inbox, nextSig, blockList, muteList,
                   reception, running, tokens, worker>>

\* load_messages from os.remove(path) to the return of the messages read
LoadRemove ==
    /\ db.loader.pc = "read"
    /\ files' = [files EXCEPT ![Stored] = Tail(@)]
    /\ db' = [writer |-> IF db.writer.pc = "opened"
                         THEN [db.writer EXCEPT !.target = @ - 1]
                         ELSE db.writer,
              loader |-> NoCalls.loader,
              returned |-> Append(db.returned, db.loader.data)]
    /\ lastOp' = [op |-> "load", found |-> TRUE]
    /\ UNCHANGED <<session, registry, guests, inbox, nextSig, blockList, muteList,
                   reception, running, tokens, worker>>

NextStore ==
    \/ \E same_second \in {b \in BOOLEAN : b => files[Stored] # <<>>} :
          StoreOpen(same_second)
    \/ StoreWrite
    \/ LoadRead
    \/ LoadRemove

SpecStore == Init /\ [][NextStore]_vars

\* C35: a message whose store has returned is in the directory, in the hands
\* of the load that is reading, or in what a load has returned, and no
\* message is in what two loads returned.
C35_StoredNeverLostNorTwice ==
    LET written == {sig \in Sigs : sig < nextSig
                                   /\ ~(db.writer.pc = "opened" /\ db.writer.sig = sig)}
        within(lines) == {lines[i] : i \in DOMAIN lines}
    IN /\ \A sig \in written :
             \/ \E k \in DOMAIN files[Stored] : sig \in within(files[Stored][k])
             \/ sig \in within(db.loader.data)
             \/ \E k \in DOMAIN db.returned : sig \in within(db.returned[k])
       /\ \A j, k \in DOMAIN db.returned :
             j # k => within(db.returned[j]) \cap within(db.returned[k]) = {}


-----------------------------------------------------------------------------
\* The foreground report statement by statement, beside the Receptionist thread

\* process_broadcast_command for state 'foreground' on a valid session, up to
\* receptionist.add_guest(identifier=session.identifier)
ForegroundRegister(c) ==
    /\ worker[c] = "idle"
    /\ session[c].valid
    /\ Len(guests) < MaxGuests
    /\ guests' = add_guest(guests, session[c].identifier)
    /\ worker' = [worker EXCEPT ![c] = "activate"]
    /\ lastOp' = [op |-> "register", c |-> c]
    /\ UNCHANGED <<session, registry, files, inbox, nextSig, blockList, muteList,
                   reception, running, tokens, db>>

\* the rest of the foreground branch: session.active = True and the receipt
ForegroundActivate(c) ==
    /\ worker[c] = "activate"
    /\ session' = [session EXCEPT ![c].active = TRUE]
    /\ worker' = [worker EXCEPT ![c] = "idle"]
    /\ lastOp' = [op |-> "report",
                  response |-> [command |-> "receipt", message |-> "Client state received"],
                  registered |-> TRUE]
    /\ UNCHANGED <<registry, guests, files, inbox, nextSig, blockList, muteList,
                   reception, running, tokens, db>>

NextForeground ==
    \/ \E c \in Conn : worker[c] = "idle" /\ Handshake(c, "U2", issued(c))
    \/ \E c \in Conn : worker[c] = "idle" /\ Report(c, "U2", "background")
    \/ \E c \in Conn : ForegroundRegister(c)
    \/ \E c \in Conn : ForegroundActivate(c)
    \/ \E c \in Conn : worker[c] = "idle" /\ Disconnect(c)
    \/ \E env \in QueuedEnvelopes, apns_ok \in BOOLEAN :
          \E accepts \in {search(registry, env.receiver)},
             same_second \in {b \in BOOLEAN : b => files[env.receiver] # <<>>} :
             DeliverQueued(env, accepts, same_second, apns_ok)
    \/ ReceptionistRuns

SpecForeground == Init /\ [][NextForeground]_vars

\* C36: while a foreground report has registered its guest and has not yet
\* set the session active, the Receptionist does not use up the registration
\* without a delivery attempt: it never untracks the reporter, leaving it out
\* of the worklist, after a drain in which no session was pushed to.
C36_ForegroundDrainedWhenActive ==
    \A c \in Conn :
        worker[c] = "activate"
        => ~(/\ lastOp.op = "remove"
             /\ lastOp.log.identifier = session[c].identifier
             /\ lastOp.log.untracked
             /\ lastOp.log.count = 0
             /\ ~has_guest(guests, session[c].identifier))


-----------------------------------------------------------------------------
\* The Receptionist with two guests in its worklist

\* the connections of the two users
Lodgers == {<<"c1", "U1">>, <<"c2", "U2">>}

NextIsolate ==
    \/ \E p \in Lodgers : Handshake(p[1], p[2], issued(p[1]))
    \/ \E c \in Conn : Disconnect(c)
    \/ \E env \in QueuedEnvelopes, apns_ok \in {TRUE} :
          \E accepts \in SUBSET search(registry, env.receiver),
             same_second \in {b \in BOOLEAN : b => files[env.receiver] # <<>>} :
             DeliverQueued(env, accepts, same_second, apns_ok)
    \/ Tick
    \/ \E absent \in BOOLEAN, error \in Raisable : Visit(absent, error)
    \/ \E accepts \in SUBSET reception.sessions, error \in Raisable : Push(accepts, error)
    \/ \E error \in Raisable : Remove(error)
    \/ EndPass

SpecIsolate == Init /\ [][NextIsolate]_vars

\* C37: an error raised while one guest is processed does not keep the other
\* guests of the pass from being examined: the loop goes back to sleep only
\* when no other identifier of its snapshot is still waiting behind the guest
\* it has just processed.
C37_ErrorSparesOtherGuests ==
    [][(/\ reception.pc \in {"guest", "push", "remove"}
        /\ reception.guests # <<>>
        /\ reception'.pc = "sleep")
       => \A i \in DOMAIN Tail(reception.guests) :
             Tail(reception.guests)[i] = Head(reception.guests)]_vars


-----------------------------------------------------------------------------
\* The guest worklist as a set of identifiers

\* C38: the worklist holds no identifier twice, so it is never longer than the
\* number of identifiers, and an identifier the Receptionist has just
\* untracked is no longer in it.
C38_GuestsDistinct ==
    /\ \A i, j \in DOMAIN guests : i # j => guests[i] # guests[j]
    /\ Len(guests) <= Cardinality(Users)
    /\ (lastOp.op \in {"visit", "remove"} /\ lastOp.log.untracked)
       => ~has_guest(guests, lastOp.log.identifier)


-----------------------------------------------------------------------------
\* The valid flag over calls of MessageProcessor.process

\* C39: a session becomes valid only in a handshake command whose key equals
\* the key the server issued to the session; a valid session stays valid for
\* as long as it exists; and an envelope for a peer or a broadcast command
\* on a session that is not valid leaves it not valid.
C39_ValidOnlyByMatchingKey ==
    [][\A c \in Conn :
          /\ (~session[c].valid /\ session'[c].valid)
             => /\ Commanded
                /\ lastOp'.c = c
                /\ lastOp'.msg.content.command = "handshake"
                /\ lastOp'.msg.content.session = session'[c].session_key
                /\ session'[c].session_key = issued(c)
          /\ (session[c].valid /\ ~session'[c].valid) => session'[c] = NoSession
          /\ (/\ ToPeer \/ (Commanded /\ lastOp'.msg.content.command = "broadcast")
              /\ lastOp'.c = c
              /\ ~session[c].valid)
             => ~session'[c].valid
      ]_vars

\* a handshake command without a key on a session that is valid: the answer is
\* the challenge and the session is still valid
C39_Witness ==
    /\ lastOp.op = "process"
    /\ lastOp.msg.verified
    /\ lastOp.msg.receiver = Station
    /\ lastOp.msg.content.type = ContentType.Command
    /\ lastOp.msg.content.command = "handshake"
    /\ lastOp.msg.content.session = None
    /\ lastOp.response.message = "DIM?"
    /\ session[lastOp.c].valid


-----------------------------------------------------------------------------
\* Dispatcher.deliver beside a recipient's offline queue

\* C40 as claimed: Dispatcher.deliver pushes a message to a session only when
\* no earlier message for the recipient is still in the offline queue.
C40_LivePushOnlyWhenQueueEmpty ==
    [][(lastOp'.op = "deliver" /\ \E c \in Conn : inbox'[c] # inbox[c])
       => Queue(files[lastOp'.msg.receiver]) = <<>>]_vars

\* C40 as amended: while earlier messages for the recipient are in the offline
\* queue, a call of deliver for a message that is not a broadcast pushes the
\* message at once to the valid and active
\* sessions of the recipient that accept it and leaves the queue alone, or,
\* when none accepts, appends it to the queue behind the earlier ones.
C40_LivePushOrQueueTail ==
    [][(/\ lastOp'.op = "deliver"
        /\ ~IsBroadcastEnvelope(lastOp'.msg)
        /\ Queue(files[lastOp'.msg.receiver]) # <<>>)
       => LET r == lastOp'.msg.receiver
              sig == lastOp'.msg.sig
              got == {c \in Conn : inbox'[c] # inbox[c]}
          IN /\ got \subseteq {c \in search(registry, r) :
                                  session[c].valid /\ session[c].active}
             /\ \A c \in got : inbox'[c] = Append(inbox[c], sig)
             /\ IF got # {}
                THEN files' = files
                ELSE /\ Queue(files'[r]) = Append(Queue(files[r]), sig)
                     /\ \A q \in Receivers \ {r} : files'[q] = files[q]]_vars

\* the second message was pushed to a session by deliver while the first is
\* still in the recipient's offline queue and has reached no session
C40_Witness ==
    /\ lastOp.op = "deliver"
    /\ lastOp.msg.sig = 2
    /\ lastOp.result
    /\ Queue(files[lastOp.msg.receiver]) = <<1>>
    /\ \E c \in Conn : inbox[c] = <<2>>
    /\ \A c \in Conn : 1 \notin Range(inbox[c])

====
